---- MODULE Spec2Model ----
(***************************************************************************)
(* duomic driver (src/Driver/duomicDriver/Driver.cpp): the registry of     *)
(* virtual devices, the textual control protocol that mutates it, the      *)
(* initial configuration, and the per-device pull (OnReadClientInput) that *)
(* relays one channel of the shared ring buffer.                           *)
(*                                                                         *)
(* Spec is the process from its start: CreateDuomicDriver, then IPCThread  *)
(* and the registry calls statement by statement, with clients connecting  *)
(* and the host's IO threads pulling meanwhile.  IpcSpec is the same from  *)
(* the return of CreateDuomicDriver with one configuration, and            *)
(* IpcLiveSpec adds that the threads are scheduled.  PullSpec takes each   *)
(* pull and each producer write as one step.                               *)
(*                                                                         *)
(* Strings are sequences of one-character strings.  A response is the      *)
(* sequence of fragments whose concatenation is the bytes written.         *)
(* uint32_t values are pairs <<hi, lo>> of 16-bit halves, so that          *)
(* arithmetic modulo 2^32 is computed exactly.                             *)
(***************************************************************************)
EXTENDS Integers, Sequences, FiniteSets, TLC

VARIABLES
    pc,          \* "start" | "seeding" | "running" | "terminated" (the process
                 \* has ended on an uncaught exception or on a signal)
    cfgFile,     \* the file at CONFIG_PATH that startup finds; NoFile once startup
                 \* is over, after which it is not read again
    config,      \* what ReadConfig() returned to CreateDuomicDriver
    seedPos,     \* number of its entries the loop of CreateDuomicDriver has added
    g_devices,   \* std::vector<DeviceInfo>
    plugin,      \* devices published to the host through g_plugin
    lastCmd,     \* buffer: what the control thread read from the connection
    response,    \* the response HandleCommand returned for it, given to write()
    ncmds,       \* number of connections clients have made
    shm,         \* the producer's segment and whether connect() mapped it
    lastPull,    \* locals and result of the last OnReadClientInput call (PullSpec)
    nwrites,     \* number of writes of the producer to the segment's header
    npulls,      \* number of pulls
    ipc,         \* the statement IPCThread is at
    serverFd,    \* "none" | "open" | "listening" | "closed"
    sockPath,    \* does a file exist at SOCKET_PATH
    g_running,   \* std::atomic<bool> g_running
    diag,        \* what the driver has written to a log or to stderr
    pending,     \* the connection waiting in the listen queue, if any
    conn,        \* the connection accepted last and what was done with it
    lock,        \* who holds g_devicesMutex: "free" | "ipc"
    objs,        \* the aspl::Device objects alive, by identity
    op,          \* locals of the registry call in progress on the control thread
    pulling,     \* devices whose OnReadClientInput is executing on an IO thread
    acceptNonblock  \* does the socket accept() returns inherit O_NONBLOCK from
                 \* the listening socket: it does on macOS and the BSDs, it
                 \* does not on Linux

ipcVars == <<ipc, serverFd, sockPath, g_running, diag, pending, conn, lock,
             objs, op, pulling, acceptNonblock>>

vars == <<pc, cfgFile, config, seedPos, g_devices, plugin, lastCmd, response,
          ncmds, shm, lastPull, nwrites, npulls, ipcVars>>

ctlVars == <<pc, cfgFile, config, seedPos, g_devices, plugin, lastCmd, response,
             ncmds>>
pullVars == <<shm, lastPull, nwrites, npulls>>

-----------------------------------------------------------------------------
(* Program constants *)

MAX_CHANNELS == 8
RING_BUFFER_FRAMES == 8192
TARGET_LATENCY == 1024
OVERRUN_MARGIN == 512
INT_MAX == 2147483647
INT_MIN == (0 - INT_MAX) - 1

(* Bounds of the model *)

MaxConfigLines == 2     \* lines of the configuration file
MaxCmds == 2            \* connections served in Spec
MaxHostPulls == 1       \* pulls of the IO threads in Spec
MaxConns == 2           \* connections served in IpcSpec
MaxIoPulls == 2         \* pulls of the IO threads in IpcSpec
MaxWrites == 1          \* writes of the producer in PullSpec
MaxPulls == 2           \* pulls in PullSpec

-----------------------------------------------------------------------------
(* Character-level helpers *)

\* std::isspace in the "C" locale, which operator>>, std::ws and std::stoi
\* skip: space, \t, \n, \v, \f, \r.  VT is \v, the byte 0x0B, for which a
\* string has no escape: the literal holds the byte itself.
VT == ""

IsSpace(c) == c \in {" ", "\t", "\n", VT, "\f", "\r"}

Digits == <<"0", "1", "2", "3", "4", "5", "6", "7", "8", "9">>

IsDigit(c) == \E d \in 1..10 : Digits[d] = c

DigitVal(c) == (CHOOSE d \in 1..10 : Digits[d] = c) - 1

\* first position >= i of buf that holds no whitespace, Len(buf)+1 if none
RECURSIVE SkipWs(_, _)
SkipWs(buf, i) ==
    IF i > Len(buf) THEN i
    ELSE IF IsSpace(buf[i]) THEN SkipWs(buf, i + 1) ELSE i

\* first position >= i of buf that holds whitespace, Len(buf)+1 if none
RECURSIVE WordEnd(_, _)
WordEnd(buf, i) ==
    IF i > Len(buf) THEN i
    ELSE IF IsSpace(buf[i]) THEN i ELSE WordEnd(buf, i + 1)

\* first position >= i of buf that holds delim, Len(buf)+1 if none
RECURSIVE FindChar(_, _, _)
FindChar(buf, i, delim) ==
    IF i > Len(buf) THEN i
    ELSE IF buf[i] = delim THEN i ELSE FindChar(buf, i + 1, delim)

\* first position >= i of buf that holds no digit, Len(buf)+1 if none
RECURSIVE DigitsEnd(_, _)
DigitsEnd(buf, i) ==
    IF i > Len(buf) THEN i
    ELSE IF IsDigit(buf[i]) THEN DigitsEnd(buf, i + 1) ELSE i

\* value of the digits buf[i..j-1] accumulated from v, saturating at INT_MAX + 1
RECURSIVE DigitsValue(_, _, _, _)
DigitsValue(buf, i, j, v) ==
    IF i >= j THEN v
    ELSE LET d == DigitVal(buf[i]) IN
         IF v > (INT_MAX - d) \div 10 THEN INT_MAX
         ELSE DigitsValue(buf, i + 1, j, v * 10 + d)

\* does the digit string buf[i..j-1] exceed limit (limit <= INT_MAX)
DigitsExceed(buf, i, j, limit) ==
    LET RECURSIVE Over(_, _)
        Over(k, v) ==
            IF k >= j THEN FALSE
            ELSE LET d == DigitVal(buf[k]) IN
                 IF v > (limit - d) \div 10 THEN TRUE ELSE Over(k + 1, v * 10 + d)
    IN Over(i, 0)

\* is the digit string buf[i..j-1] the magnitude of INT_MIN, INT_MAX + 1
DigitsAreIntMin(buf, i, j) ==
    /\ j > i
    /\ ~DigitsExceed(buf, i, j - 1, INT_MAX)
    /\ DigitsValue(buf, i, j - 1, 0) = INT_MAX \div 10
    /\ DigitVal(buf[j - 1]) = (INT_MAX % 10) + 1

\* decimal text of an int, as operator<<(ostream&, int) writes it
RECURSIVE NatDecimal(_)
NatDecimal(n) ==
    IF n < 10 THEN <<Digits[n + 1]>>
    ELSE NatDecimal(n \div 10) \o <<Digits[(n % 10) + 1]>>

ToDecimal(n) == IF n < 0 THEN <<"-">> \o NatDecimal(0 - n) ELSE NatDecimal(n)

-----------------------------------------------------------------------------
(* std::istringstream: a buffer, the read position and the state bits *)

StreamInit == [pos |-> 1, eof |-> FALSE, fail |-> FALSE]

Good(st) == ~st.eof /\ ~st.fail

\* operator>>(istream&, std::string&) into an empty string
ExtractWord(buf, st) ==
    IF ~Good(st) THEN [str |-> <<>>, st |-> [st EXCEPT !.fail = TRUE]]
    ELSE LET p == SkipWs(buf, st.pos) IN
         IF p > Len(buf)
         THEN [str |-> <<>>, st |-> [pos |-> p, eof |-> TRUE, fail |-> TRUE]]
         ELSE LET e == WordEnd(buf, p) IN
              [str |-> SubSeq(buf, p, e - 1),
               st  |-> [pos |-> e, eof |-> e > Len(buf), fail |-> FALSE]]

\* iss >> std::ws
SkipWhitespace(buf, st) ==
    IF ~Good(st) THEN [st EXCEPT !.fail = TRUE]
    ELSE LET p == SkipWs(buf, st.pos) IN
         [pos |-> p, eof |-> p > Len(buf), fail |-> FALSE]

\* std::getline(istream&, std::string&, delim) into an empty string
GetLine(buf, st, delim) ==
    IF ~Good(st) THEN [str |-> <<>>, st |-> [st EXCEPT !.fail = TRUE]]
    ELSE LET d == FindChar(buf, st.pos, delim) IN
         IF d <= Len(buf)
         THEN [str |-> SubSeq(buf, st.pos, d - 1),
               st  |-> [pos |-> d + 1, eof |-> FALSE, fail |-> FALSE]]
         ELSE [str |-> SubSeq(buf, st.pos, Len(buf)),
               st  |-> [pos |-> d, eof |-> TRUE, fail |-> st.pos > Len(buf)]]

\* operator>>(istream&, int&): assigned is FALSE when the sentry fails and the
\* int keeps the value it had; otherwise val is what num_get stores (0 when no
\* digit follows, INT_MAX or -INT_MAX-1 on overflow)
ExtractInt(buf, st) ==
    IF ~Good(st) THEN [assigned |-> FALSE, val |-> 0]
    ELSE LET p == SkipWs(buf, st.pos) IN
         IF p > Len(buf) THEN [assigned |-> FALSE, val |-> 0]
         ELSE LET neg == buf[p] = "-"
                  q   == IF buf[p] \in {"-", "+"} THEN p + 1 ELSE p
                  e   == DigitsEnd(buf, q)
              IN IF e = q THEN [assigned |-> TRUE, val |-> 0]
                 ELSE IF DigitsExceed(buf, q, e, INT_MAX)
                      THEN [assigned |-> TRUE,
                            val |-> IF neg THEN INT_MIN ELSE INT_MAX]
                      ELSE LET v == DigitsValue(buf, q, e, 0) IN
                           [assigned |-> TRUE, val |-> IF neg THEN 0 - v ELSE v]

-----------------------------------------------------------------------------
(* The registry: g_devices under g_devicesMutex, and the host's view *)

\* a DuomicIOHandler as constructed: channelIndex_, readPos_ = 0
NewHandler(channel) == [channelIndex |-> channel, readPos |-> <<0, 0>>]

\* no handler made yet
NoHandler == [channelIndex |-> 0 - 1, readPos |-> <<0, 0>>]

HasName(devs, name) == \E i \in 1..Len(devs) : devs[i].name = name

\* position of the first entry called name
FirstIndex(devs, name) ==
    CHOOSE i \in 1..Len(devs) :
        devs[i].name = name /\ \A j \in 1..(i - 1) : devs[j].name # name

RemoveAt(devs, i) == SubSeq(devs, 1, i - 1) \o SubSeq(devs, i + 1, Len(devs))

\* std::make_shared<aspl::Device>: an object distinct from every live device
NewDevice(devs, plug) ==
    LET live == plug \cup {devs[i].device : i \in 1..Len(devs)} IN
    CHOOSE d \in 1..(Cardinality(live) + 1) :
        d \notin live /\ \A e \in 1..(d - 1) : e \in live

NewEntry(devs, plug, name, channel) ==
    [name |-> name, channel |-> channel, device |-> NewDevice(devs, plug),
     handler |-> NewHandler(channel)]

\* AddVirtualDevice without the duplicate check
AddVirtualDevice_NoDupCheck(devs, plug, name, channel) ==
    [ret |-> TRUE,
     devices |-> Append(devs, NewEntry(devs, plug, name, channel)),
     plugin |-> plug \cup {NewDevice(devs, plug)}]

AddVirtualDevice(devs, plug, name, channel) ==
    IF HasName(devs, name)
    THEN [ret |-> FALSE, devices |-> devs, plugin |-> plug]
    ELSE [ret |-> TRUE,
          devices |-> Append(devs, NewEntry(devs, plug, name, channel)),
          plugin |-> plug \cup {NewDevice(devs, plug)}]

RemoveVirtualDevice(devs, plug, name) ==
    IF HasName(devs, name)
    THEN LET i == FirstIndex(devs, name) IN
         [ret |-> TRUE,
          devices |-> RemoveAt(devs, i),
          plugin |-> plug \ {devs[i].device}]
    ELSE [ret |-> FALSE, devices |-> devs, plugin |-> plug]

\* the line ListDevices writes for one entry
ListLine(dev) == dev.name \o <<":">> \o ToDecimal(dev.channel) \o <<"\n">>

RECURSIVE ListDevices(_)
ListDevices(devs) ==
    IF devs = <<>> THEN <<>>
    ELSE ListLine(Head(devs)) \o ListDevices(Tail(devs))

-----------------------------------------------------------------------------
(* The control protocol *)

KwADD == <<"A", "D", "D">>
KwREMOVE == <<"R", "E", "M", "O", "V", "E">>
KwLIST == <<"L", "I", "S", "T">>
KwPING == <<"P", "I", "N", "G">>

RespAdded == <<"OK:Device added\n">>
RespRemoved == <<"OK:Device removed\n">>
RespInvalidName == <<"ERROR:Invalid name\n">>
RespInvalidChannel == <<"ERROR:Invalid channel\n">>
RespExists == <<"ERROR:Device already exists\n">>
RespNotFound == <<"ERROR:Device not found\n">>
RespUnknown == <<"ERROR:Unknown command\n">>
RespPong == <<"PONG\n">>

ErrorResponses ==
    {RespInvalidName, RespInvalidChannel, RespExists, RespNotFound, RespUnknown}

\* iss >> command
CommandWord(cmd) == ExtractWord(cmd, StreamInit)

\* std::getline(iss >> std::ws, name, ':')
AddName(cmd) ==
    GetLine(cmd, SkipWhitespace(cmd, CommandWord(cmd).st), ":")

\* iss >> channel
AddChannel(cmd) == ExtractInt(cmd, AddName(cmd).st)

\* std::getline(iss >> std::ws, name)
RemoveName(cmd) ==
    GetLine(cmd, SkipWhitespace(cmd, CommandWord(cmd).st), "\n")

\* does HandleCommand(cmd) read int channel without it having been assigned
ReadsUnassignedChannel(cmd) ==
    /\ CommandWord(cmd).str = KwADD
    /\ AddName(cmd).str # <<>>
    /\ ~AddChannel(cmd).assigned

\* garbage is the value an int channel that was never assigned holds
HandleCommand(cmd, garbage, devs, plug) ==
    LET command == CommandWord(cmd).str
        same == [devices |-> devs, plugin |-> plug]
    IN
    IF command = KwADD THEN
        LET name == AddName(cmd).str
            ch == AddChannel(cmd)
            channel == IF ch.assigned THEN ch.val ELSE garbage
        IN IF name = <<>> THEN same @@ [response |-> RespInvalidName]
           ELSE IF channel < 0 \/ channel >= MAX_CHANNELS
                THEN same @@ [response |-> RespInvalidChannel]
           ELSE LET r == AddVirtualDevice(devs, plug, name, channel) IN
                [devices |-> r.devices, plugin |-> r.plugin,
                 response |-> IF r.ret THEN RespAdded ELSE RespExists]
    ELSE IF command = KwREMOVE THEN
        LET name == RemoveName(cmd).str
        IN IF name = <<>> THEN same @@ [response |-> RespInvalidName]
           ELSE LET r == RemoveVirtualDevice(devs, plug, name) IN
                [devices |-> r.devices, plugin |-> r.plugin,
                 response |-> IF r.ret THEN RespRemoved ELSE RespNotFound]
    ELSE IF command = KwLIST
         THEN same @@ [response |-> <<"OK\n">> \o ListDevices(devs)]
    ELSE IF command = KwPING THEN same @@ [response |-> RespPong]
    ELSE same @@ [response |-> RespUnknown]

-----------------------------------------------------------------------------
(* The initial configuration *)

\* std::stoi: threw is TRUE for std::invalid_argument (no digits) and for
\* std::out_of_range (a value outside INT_MIN .. INT_MAX)
Stoi(s) ==
    LET p == SkipWs(s, 1) IN
    IF p > Len(s) THEN [threw |-> TRUE, val |-> 0]
    ELSE LET neg == s[p] = "-"
             q   == IF s[p] \in {"-", "+"} THEN p + 1 ELSE p
             e   == DigitsEnd(s, q)
         IN IF e = q THEN [threw |-> TRUE, val |-> 0]
            ELSE IF neg /\ DigitsAreIntMin(s, q, e)
                 THEN [threw |-> FALSE, val |-> INT_MIN]
            ELSE IF DigitsExceed(s, q, e, INT_MAX)
                 THEN [threw |-> TRUE, val |-> 0]
            ELSE LET v == DigitsValue(s, q, e, 0) IN
                 [threw |-> FALSE, val |-> IF neg THEN 0 - v ELSE v]

DefaultDevices ==
    << <<(<<"d", "u", "o", "m", "i", "c", " ", "L">>), 0>>,
       <<(<<"d", "u", "o", "m", "i", "c", " ", "R">>), 1>> >>

\* the while loop of ReadConfig over the lines std::getline yields
RECURSIVE ReadLines(_, _)
ReadLines(lines, devices) ==
    IF lines = <<>> THEN [threw |-> FALSE, devices |-> devices]
    ELSE LET line == Head(lines) IN
         IF line = <<>> \/ line[1] = "#" THEN ReadLines(Tail(lines), devices)
         ELSE LET colonPos == FindChar(line, 1, ":") IN
              IF colonPos > Len(line) THEN ReadLines(Tail(lines), devices)
              ELSE LET name == SubSeq(line, 1, colonPos - 1)
                       n == Stoi(SubSeq(line, colonPos + 1, Len(line)))
                   IN IF n.threw THEN [threw |-> TRUE, devices |-> devices]
                      ELSE IF n.val >= 0 /\ n.val < MAX_CHANNELS
                           THEN ReadLines(Tail(lines),
                                          Append(devices, <<name, n.val>>))
                           ELSE ReadLines(Tail(lines), devices)

\* file.open is FALSE when the file cannot be opened
ReadConfig(file) ==
    IF ~file.open THEN [threw |-> FALSE, devices |-> DefaultDevices]
    ELSE LET r == ReadLines(file.lines, <<>>) IN
         IF r.threw THEN r
         ELSE IF r.devices = <<>>
              THEN [threw |-> FALSE, devices |-> DefaultDevices]
              ELSE r

-----------------------------------------------------------------------------
(* uint32_t arithmetic on <<hi, lo>> pairs of 16-bit halves *)

Half == 65536

U32(n) == <<n \div Half, n % Half>>

Sub32(a, b) ==
    LET lo == a[2] - b[2]
        borrow == IF lo < 0 THEN 1 ELSE 0
    IN <<(a[1] - b[1] - borrow) % Half, lo % Half>>

Add32(a, b) ==
    LET lo == a[2] + b[2]
        carry == IF lo >= Half THEN 1 ELSE 0
    IN <<(a[1] + b[1] + carry) % Half, lo % Half>>

Lt32(a, b) == a[1] < b[1] \/ (a[1] = b[1] /\ a[2] < b[2])

Le32(a, b) == a = b \/ Lt32(a, b)

Min32(a, b) == IF Lt32(b, a) THEN b ELSE a

\* a % m for m a power of two no greater than 2^16
Mod32(a, m) == a[2] % m

\* the value of a uint32_t that is below 2^31
Nat32(a) == a[1] * Half + a[2]

-----------------------------------------------------------------------------
(* SharedAudioBuffer: the mapped segment, seg.connected is ptr_ != nullptr *)

\* isActive that does not look at the active flag
isActive_IgnoreFlag(seg) == seg.connected

isActive(seg) == seg.connected /\ seg.activeFlag = 1

getChannelCount(seg) == IF ~seg.connected THEN 2 ELSE seg.channelCount

getWritePos(seg) == IF ~seg.connected THEN <<0, 0>> ELSE seg.writePos

\* shmSamples[idx], a float that is a multiple of 1/4, in quarters
ShmSample(seg, idx) == ((idx * 7 + seg.pattern) % 13) - 6

\* ConvertToSInt16 of the float q/4; sample * 32767.0f is exact for such a
\* float and the cast truncates toward zero
ConvertToSInt16(q) ==
    IF q >= 4 THEN 32767
    ELSE IF q <= 0 - 4 THEN 0 - 32768
    ELSE IF q >= 0 THEN (q * 32767) \div 4
    ELSE 0 - (((0 - q) * 32767) \div 4)

-----------------------------------------------------------------------------
(* DuomicIOHandler::OnReadClientInput *)

Silence(numSamples) == [i \in 1..numSamples |-> 0]

\* SeedReadPos that seeds whatever the write cursor is
SeedReadPos_NoLatencyCheck(readPos, writePos) ==
    IF readPos = <<0, 0>>
    THEN Sub32(writePos, U32(TARGET_LATENCY))
    ELSE readPos

\* lines 173-175: the first pull with enough history seeds the latency
SeedReadPos(readPos, writePos) ==
    IF readPos = <<0, 0>> /\ Lt32(U32(TARGET_LATENCY), writePos)
    THEN Sub32(writePos, U32(TARGET_LATENCY))
    ELSE readPos

\* IsOverrun that adds the margin to the capacity
IsOverrun_PlusMargin(available) ==
    Lt32(U32(RING_BUFFER_FRAMES + OVERRUN_MARGIN), available)

\* IsOverrun with >= in place of >
IsOverrun_Inclusive(available) ==
    Le32(U32(RING_BUFFER_FRAMES - OVERRUN_MARGIN), available)

\* line 179
IsOverrun(available) ==
    Lt32(U32(RING_BUFFER_FRAMES - OVERRUN_MARGIN), available)

\* IsUnderrun that does not compare available with the request
IsUnderrun_NoAvailableCheck(writePos, readPos, available, numSamples) ==
    Le32(writePos, readPos)

\* line 184
IsUnderrun(writePos, readPos, available, numSamples) ==
    Le32(writePos, readPos) \/ Lt32(available, U32(numSamples))

\* SampleIdx that reads the first channel of the frame
SampleIdx_FirstChannel(readPos, i, inputChannels, channelIndex) ==
    Mod32(Add32(readPos, U32(i)), RING_BUFFER_FRAMES) * inputChannels

\* lines 192-193: the slot of channel channelIndex of frame readPos + i
SampleIdx(readPos, i, inputChannels, channelIndex) ==
    Mod32(Add32(readPos, U32(i)), RING_BUFFER_FRAMES) * inputChannels
        + channelIndex

\* the call's locals and what it leaves: out is the block written to bytes,
\* readPos the handler's readPos_ on return
OnReadClientInput(handler, numSamples, seg) ==
    LET quiet(rp) ==
            [silent |-> TRUE, copied |-> 0, from |-> rp,
             out |-> Silence(numSamples), readPos |-> rp]
    IN
    IF ~isActive(seg)
    THEN quiet(handler.readPos) @@ [stage |-> "inactive"]
    ELSE
    LET writePos == getWritePos(seg)
        inputChannels == getChannelCount(seg)
    IN
    IF handler.channelIndex >= inputChannels
    THEN quiet(handler.readPos) @@ [stage |-> "channel"]
    ELSE
    LET seeded == SeedReadPos(handler.readPos, writePos)
        avail0 == Sub32(writePos, seeded)
        over == IsOverrun(avail0)
        readPos == IF over THEN Sub32(writePos, U32(TARGET_LATENCY)) ELSE seeded
        available == IF over THEN U32(TARGET_LATENCY) ELSE avail0
        locals == [stage |-> "cursor", writePos |-> writePos, seeded |-> seeded,
                   overrun |-> over, snapped |-> readPos, available |-> available]
    IN
    IF IsUnderrun(writePos, readPos, available, numSamples)
    THEN quiet(readPos) @@ locals
    ELSE
    LET samplesToRead == Nat32(Min32(U32(numSamples), Sub32(writePos, readPos)))
    IN [silent |-> FALSE, copied |-> samplesToRead, from |-> readPos,
        out |-> [i \in 1..numSamples |->
                    IF i <= samplesToRead
                    THEN ConvertToSInt16(ShmSample(seg,
                             SampleIdx(readPos, i - 1, inputChannels,
                                       handler.channelIndex)))
                    ELSE 0],
        readPos |-> Add32(readPos, U32(samplesToRead))] @@ locals

-----------------------------------------------------------------------------
(* Inputs *)

NameA == <<"a">>
NameStudio == <<"s", "t", "u", "d", "i", "o", "M", "i", "c">>
NameBad == <<"b", "a", "d">>

\* the name of the first built-in default, which holds a space
NameLeft == <<"d", "u", "o", "m", "i", "c", " ", "L">>

CmdNames == {NameA, NameStudio}

\* the text after the colon of an ADD command
ChannelTexts ==
    {<<"0">>, <<"8">>, <<"-", "1">>, <<"x">>, <<>>,
     <<" ", VT, "7", "x">>,
     <<"9", "9", "9", "9", "9", "9", "9", "9", "9", "9", "9">>}

Commands ==
    {KwADD \o <<" ">> \o NameA \o <<":">> \o c : c \in ChannelTexts}
    \cup {KwADD \o <<" ">> \o NameStudio \o <<":", "3">>,
          KwADD \o <<" ">> \o NameBad \o <<":", "9", "9">>,
          KwADD \o <<" ">> \o <<":", "3">>}
    \cup {KwREMOVE \o <<" ">> \o n : n \in CmdNames \cup {NameLeft}}
    \cup {KwREMOVE, KwREMOVE \o <<" ">> \o NameBad \o <<"\n">>}
    \cup {KwLIST, KwLIST \o <<"\r", "\n">>, <<"\f">> \o KwPING \o <<"\r", "\n">>,
          <<"l", "i", "s", "t">>}

\* the commands for which HandleCommand reads int channel unassigned
UnassignedCommands == {cmd \in Commands : ReadsUnassignedChannel(cmd)}

\* values an int that was never assigned may hold: whatever the stack slot or
\* register held, the channel of an earlier command for one.  Here are the
\* channels that the commands and the configuration lines carry (0, 3, 7),
\* which include both ends of the range that the check of line 277 lets
\* through, and of the values it rejects the nearest and the farthest on
\* each side.
IndeterminateInts ==
    {INT_MIN, 0 - 1, 0, 3, MAX_CHANNELS - 1, MAX_CHANNELS, INT_MAX}

ConfigLineSet ==
    {NameStudio \o <<":", "3">>,
     NameA \o <<":", VT, "7", "\r">>, NameA \o <<":", "9">>,
     NameA \o <<":", "-", "2", "1", "4", "7", "4", "8", "3", "6", "4", "8">>,
     NameA \o <<":", "x">>, NameA,
     <<"#", "a", ":", "1">>, <<>>}

RECURSIVE SeqsUpTo(_, _)
SeqsUpTo(S, n) ==
    IF n = 0 THEN {<<>>}
    ELSE LET shorter == SeqsUpTo(S, n - 1) IN
         shorter \cup {Append(q, x) : q \in shorter, x \in S}

\* no file at the path, or a std::ifstream that is not open
NoFile == [open |-> FALSE, lines |-> <<>>]

ConfigFiles ==
    {NoFile}
    \cup {[open |-> TRUE, lines |-> l] : l \in SeqsUpTo(ConfigLineSet, MaxConfigLines)}

\* a segment that connect() did not map
ShmAbsent ==
    [connected |-> FALSE, writePos |-> <<0, 0>>, channelCount |-> 0,
     activeFlag |-> 0, pattern |-> 0]

NoPull == [dev |-> 0]

\* open: the server's descriptor is open; data: what the client has sent;
\* trace: what the thread has done with the connection; peerClosed: the client
\* has closed its end
NoConn == [open |-> FALSE, data |-> <<>>, trace |-> <<>>, peerClosed |-> FALSE]

\* no call of HandleCommand is in progress
NoOp == [kind |-> "idle"]

\* the segment connect() finds at SHM_PATH when it maps one: the producer has
\* written 2000 frames of 4 channels and is active
StartupSegment ==
    [connected |-> TRUE, writePos |-> <<0, 2000>>, channelCount |-> 4,
     activeFlag |-> 1, pattern |-> 0]

\* an aspl::Device as std::make_shared constructs it
NewObject == [stream |-> FALSE, control |-> FALSE, io |-> FALSE]

\* a device that AddVirtualDevice has taken through lines 226-231
BoundObject == [stream |-> TRUE, control |-> TRUE, io |-> TRUE]

\* objs with the object d added or replaced
WithObject(d, o) ==
    [e \in (DOMAIN objs) \cup {d} |-> IF e = d THEN o ELSE objs[e]]

\* objs without the object d
WithoutObject(d) == [e \in (DOMAIN objs) \ {d} |-> objs[e]]

\* IPCThread has not run a statement; PullSpec, which takes a whole pull as
\* one step, leaves these variables alone
IpcNotStarted ==
    /\ ipc = "unlink"
    /\ serverFd = "none"
    /\ sockPath = FALSE
    /\ g_running = TRUE
    /\ diag = <<>>
    /\ pending = NoConn
    /\ conn = NoConn
    /\ lock = "free"
    /\ op = NoOp
    /\ pulling = {}
    /\ acceptNonblock = TRUE

-----------------------------------------------------------------------------
(* Startup: CreateDuomicDriver *)

\* the process as loaded: the globals as constructed, the environment (the
\* configuration file, a file left at SOCKET_PATH, the platform's accept)
\* whatever it is
Init ==
    /\ pc = "start"
    /\ cfgFile \in ConfigFiles
    /\ config = <<>>
    /\ seedPos = 0
    /\ g_devices = <<>>
    /\ plugin = {}
    /\ lastCmd = <<>>
    /\ response = <<>>
    /\ ncmds = 0
    /\ shm = ShmAbsent
    /\ lastPull = NoPull
    /\ nwrites = 0
    /\ npulls = 0
    /\ ipc = "unlink"
    /\ serverFd = "none"
    /\ sockPath \in BOOLEAN
    /\ g_running = TRUE
    /\ diag = <<>>
    /\ pending = NoConn
    /\ conn = NoConn
    /\ lock = "free"
    /\ objs = <<>>
    /\ op = NoOp
    /\ pulling = {}
    /\ acceptNonblock \in BOOLEAN

\* lines 403-410: g_sharedBuffer.connect() maps the segment when a file of
\* positive size is at SHM_PATH and mmap succeeds, and leaves the buffer
\* unmapped otherwise; nothing calls connect() again.  Then ReadConfig(): an
\* exception of std::stoi leaves ReadConfig and CreateDuomicDriver, which
\* have no handler, and the host process terminates.
LoadConfig ==
    /\ pc = "start"
    /\ shm' \in {ShmAbsent, StartupSegment}
    /\ LET rc == ReadConfig(cfgFile) IN
       /\ pc' = IF rc.threw THEN "terminated" ELSE "seeding"
       /\ config' = IF rc.threw THEN <<>> ELSE rc.devices
    /\ UNCHANGED <<cfgFile, seedPos, g_devices, plugin, lastCmd, response, ncmds>>
    /\ UNCHANGED <<lastPull, nwrites, npulls>>
    /\ UNCHANGED ipcVars

\* one iteration of the loop of CreateDuomicDriver over the configuration
SeedDevice ==
    /\ pc = "seeding"
    /\ seedPos < Len(config)
    /\ LET entry == config[seedPos + 1]
           r == AddVirtualDevice(g_devices, plugin, entry[1], entry[2])
       IN /\ g_devices' = r.devices
          /\ plugin' = r.plugin
          /\ objs' = IF r.ret
                     THEN WithObject(NewDevice(g_devices, plugin), BoundObject)
                     ELSE objs
    /\ seedPos' = seedPos + 1
    /\ UNCHANGED <<pc, cfgFile, config, lastCmd, response, ncmds>>
    /\ UNCHANGED pullVars
    /\ UNCHANGED <<ipc, serverFd, sockPath, g_running, diag, pending, conn, lock,
                   op, pulling, acceptNonblock>>

\* lines 415-419: the loop is over, the control thread is started and
\* detached, and CreateDuomicDriver returns the driver to the host; its
\* locals, the configuration read among them, end with it
StartIPCThread ==
    /\ pc = "seeding"
    /\ seedPos = Len(config)
    /\ pc' = "running"
    /\ cfgFile' = NoFile
    /\ config' = <<>>
    /\ seedPos' = 0
    /\ UNCHANGED <<g_devices, plugin, lastCmd, response, ncmds>>
    /\ UNCHANGED pullVars
    /\ UNCHANGED ipcVars

-----------------------------------------------------------------------------
(* The host pulling from the devices while the producer writes *)

\* CreateDuomicDriver's loop run to its end
RECURSIVE SeedAll(_, _, _)
SeedAll(entries, devs, plug) ==
    IF entries = <<>> THEN [devices |-> devs, plugin |-> plug]
    ELSE LET r == AddVirtualDevice(devs, plug, Head(entries)[1], Head(entries)[2])
         IN SeedAll(Tail(entries), r.devices, r.plugin)

PullConfigFile ==
    [open |-> TRUE,
     lines |-> <<NameStudio \o <<":", "3">> >>]

\* write cursors the driver may find when it first pulls
InitWritePos ==
    {U32(0), U32(500), U32(1090), U32(2000), <<Half - 1, Half - 300>>}

\* frames the producer publishes in one write
WriteIncrements == {1024, 7436, 7500}

\* frames the host requests in one pull
RequestSizes == {0, 256, 1024, 1100}

Segments ==
    {ShmAbsent}
    \cup {[connected |-> TRUE, writePos |-> w, channelCount |-> cc,
           activeFlag |-> 1, pattern |-> 0] :
              w \in InitWritePos, cc \in {4}}
    \cup {[connected |-> TRUE, writePos |-> U32(2000), channelCount |-> 4,
           activeFlag |-> 2, pattern |-> 0],
          [connected |-> TRUE, writePos |-> U32(2000), channelCount |-> 3,
           activeFlag |-> 1, pattern |-> 0]}

PullInit ==
    /\ pc = "running"
    /\ cfgFile = NoFile
    /\ config = <<>>
    /\ seedPos = 0
    /\ LET r == SeedAll(ReadConfig(PullConfigFile).devices, <<>>, {}) IN
       /\ g_devices = r.devices
       /\ plugin = r.plugin
       /\ objs = [d \in r.plugin |-> BoundObject]
    /\ lastCmd = <<>>
    /\ response = <<>>
    /\ ncmds = 0
    /\ shm \in Segments
    /\ lastPull = NoPull
    /\ nwrites = 0
    /\ npulls = 0
    /\ IpcNotStarted

\* the host calls OnReadClientInput of a published device
Pull ==
    /\ npulls < MaxPulls
    /\ \E i \in 1..Len(g_devices), n \in RequestSizes :
          /\ g_devices[i].device \in plugin
          /\ LET r == OnReadClientInput(g_devices[i].handler, n, shm) IN
             /\ g_devices' = [g_devices EXCEPT ![i].handler.readPos = r.readPos]
             /\ lastPull' = [dev |-> i, numSamples |-> n,
                             before |-> g_devices[i].handler.readPos,
                             seg |-> shm, r |-> r]
    /\ npulls' = npulls + 1
    /\ UNCHANGED <<pc, cfgFile, config, seedPos, plugin, lastCmd, response, ncmds,
                   shm, nwrites>>
    /\ UNCHANGED ipcVars

\* the producer publishes frames: the write cursor advances modulo 2^32
ProducerWrite ==
    /\ shm.connected
    /\ nwrites < MaxWrites
    /\ \E inc \in WriteIncrements :
          shm' = [shm EXCEPT !.writePos = Add32(shm.writePos, U32(inc))]
    /\ nwrites' = nwrites + 1
    /\ UNCHANGED <<lastPull, npulls>>
    /\ UNCHANGED ctlVars
    /\ UNCHANGED ipcVars

\* the producer sets or clears the active flag
ProducerSetActive ==
    /\ shm.connected
    /\ nwrites < MaxWrites
    /\ \E flag \in {0, 1} :
          /\ flag # shm.activeFlag
          /\ shm' = [shm EXCEPT !.activeFlag = flag]
    /\ nwrites' = nwrites + 1
    /\ UNCHANGED <<lastPull, npulls>>
    /\ UNCHANGED ctlVars
    /\ UNCHANGED ipcVars

PullNext == Pull \/ ProducerWrite \/ ProducerSetActive

PullSpec == PullInit /\ [][PullNext]_vars

-----------------------------------------------------------------------------
(* IPCThread statement by statement, the registry calls under               *)
(* g_devicesMutex, and the host's IO threads pulling meanwhile              *)

\* the commands the clients of IpcSpec send
ClientData ==
    {KwADD \o <<" ">> \o NameA \o <<":", "0">>,
     KwADD \o <<" ">> \o NameStudio \o <<":", "3">>,
     KwADD \o <<" ">> \o NameA \o <<":", "8">>,
     KwREMOVE \o <<" ">> \o NameStudio,
     KwLIST}

\* frames the host requests in a pull
IoRequest == 2

\* Callee that does not check the upper end of the channel range
Callee_NoUpperCheck(cmd, garbage) ==
    LET command == CommandWord(cmd).str
        ch == AddChannel(cmd)
        channel == IF ch.assigned THEN ch.val ELSE garbage
    IN IF command = KwADD
       THEN IF AddName(cmd).str # <<>> /\ channel >= 0
            THEN "add" ELSE "none"
       ELSE IF command = KwREMOVE
       THEN IF RemoveName(cmd).str # <<>> THEN "remove" ELSE "none"
       ELSE IF command = KwLIST THEN "list" ELSE "none"

\* the registry function HandleCommand(cmd) calls, "none" if it returns
\* without calling one
Callee(cmd, garbage) ==
    LET command == CommandWord(cmd).str
        ch == AddChannel(cmd)
        channel == IF ch.assigned THEN ch.val ELSE garbage
    IN IF command = KwADD
       THEN IF AddName(cmd).str # <<>> /\ channel >= 0 /\ channel < MAX_CHANNELS
            THEN "add" ELSE "none"
       ELSE IF command = KwREMOVE
       THEN IF RemoveName(cmd).str # <<>> THEN "remove" ELSE "none"
       ELSE IF command = KwLIST THEN "list" ELSE "none"

\* HandleCommand(cmd) up to its registry call: the function called and its
\* arguments, or the response returned when it calls none
Parse(cmd, garbage) ==
    LET callee == Callee(cmd, garbage)
        ch == AddChannel(cmd)
    IN [callee |-> callee,
        name |-> IF callee = "add" THEN AddName(cmd).str
                 ELSE IF callee = "remove" THEN RemoveName(cmd).str ELSE <<>>,
        channel |-> IF callee = "add"
                    THEN (IF ch.assigned THEN ch.val ELSE garbage) ELSE 0,
        response |-> IF callee = "none"
                     THEN HandleCommand(cmd, garbage, <<>>, {}).response
                     ELSE <<>>]

\* Parse of every command a client sends, for every value the unassigned
\* channel may hold
Parsed ==
    [cmd \in Commands |->
        [garbage \in (IF cmd \in UnassignedCommands
                       THEN IndeterminateInts ELSE {0}) |-> Parse(cmd, garbage)]]

\* name, channel and device of every entry, in order: what the registry
\* calls write.  The cursor of an entry's handler is moved by the IO threads.
Rows(devs) ==
    [i \in 1..Len(devs) |->
        [name |-> devs[i].name, channel |-> devs[i].channel,
         device |-> devs[i].device]]

\* the registry and the published devices as a call finds them
Snapshot == [devices |-> Rows(g_devices), plugin |-> plugin]

\* the device ids of the registry's entries
RegistryDevices(devs) == {devs[i].device : i \in 1..Len(devs)}

\* an object distinct from every device that is alive or that an IO thread
\* still holds
FreshDevice ==
    LET live == (DOMAIN objs) \cup plugin \cup RegistryDevices(g_devices)
                    \cup pulling
    IN CHOOSE d \in 1..(Cardinality(live) + 1) :
          d \notin live /\ \A e \in 1..(d - 1) : e \in live

IpcInit ==
    /\ pc = "running"
    /\ cfgFile = NoFile
    /\ config = <<>>
    /\ seedPos = 0
    /\ LET r == SeedAll(ReadConfig(PullConfigFile).devices, <<>>, {}) IN
       /\ g_devices = r.devices
       /\ plugin = r.plugin
       /\ objs = [d \in r.plugin |-> BoundObject]
    /\ lastCmd = <<>>
    /\ response = <<>>
    /\ ncmds = 0
    /\ shm = ShmAbsent
    /\ lastPull = NoPull
    /\ nwrites = 0
    /\ npulls = 0
    /\ ipc = "unlink"
    /\ serverFd = "none"
    /\ sockPath \in BOOLEAN
    /\ g_running = TRUE
    /\ diag = <<>>
    /\ pending = NoConn
    /\ conn = NoConn
    /\ lock = "free"
    /\ op = NoOp
    /\ pulling = {}
    /\ acceptNonblock \in BOOLEAN

\* what no statement of IPCThread, HandleCommand or the registry calls
\* writes
IpcUntouched ==
    UNCHANGED <<cfgFile, config, seedPos, ncmds, shm, lastPull, nwrites,
                npulls, g_running, diag, pulling, acceptNonblock>>

\* the same for a statement after which the process lives on
IpcFixed == IpcUntouched /\ UNCHANGED pc

\* line 310, the first statement of the thread that line 415 started:
\* unlink(SOCKET_PATH), whose result is not looked at; it can fail on a path
\* the process may not remove
Unlink ==
    /\ pc = "running"
    /\ ipc = "unlink"
    /\ sockPath' \in {FALSE, sockPath}
    /\ ipc' = "socket"
    /\ UNCHANGED <<g_devices, plugin, lastCmd, response, serverFd, pending, conn,
                   lock, objs, op>>
    /\ IpcFixed

\* lines 313-314
CreateSocket ==
    /\ ipc = "socket"
    /\ \/ serverFd' = "open" /\ ipc' = "bind"
       \/ serverFd' = "none" /\ ipc' = "return_socket"
    /\ UNCHANGED <<g_devices, plugin, lastCmd, response, sockPath, pending, conn,
                   lock, objs, op>>
    /\ IpcFixed

\* lines 321-324: bind creates the path; it fails when the path exists and
\* may fail for other reasons
Bind ==
    /\ ipc = "bind"
    /\ \/ /\ ~sockPath
          /\ sockPath' = TRUE
          /\ serverFd' = serverFd
          /\ ipc' = "listen"
       \/ /\ sockPath' = sockPath
          /\ serverFd' = "closed"
          /\ ipc' = "return_bind"
    /\ UNCHANGED <<g_devices, plugin, lastCmd, response, pending, conn, lock,
                   objs, op>>
    /\ IpcFixed

\* lines 327-335: chmod, listen, fcntl(O_NONBLOCK)
Listen ==
    /\ ipc = "listen"
    /\ \/ serverFd' = "listening" /\ ipc' = "loop"
       \/ serverFd' = "closed" /\ ipc' = "return_listen"
    /\ UNCHANGED <<g_devices, plugin, lastCmd, response, sockPath, pending, conn,
                   lock, objs, op>>
    /\ IpcFixed

\* line 337: while (g_running)
LoopCheck ==
    /\ ipc = "loop"
    /\ ipc' = IF g_running THEN "select" ELSE "cleanup"
    /\ UNCHANGED <<g_devices, plugin, lastCmd, response, serverFd, sockPath,
                   pending, conn, lock, objs, op>>
    /\ IpcFixed

\* lines 338-347: select returns within one second; its result is positive
\* only when a connection waits, and zero or negative sends the thread back
\* to the loop condition
Select ==
    /\ ipc = "select"
    /\ \/ pending # NoConn /\ ipc' = "accept"
       \/ ipc' = "loop"
    /\ UNCHANGED <<g_devices, plugin, lastCmd, response, serverFd, sockPath,
                   pending, conn, lock, objs, op>>
    /\ IpcFixed

\* lines 349-350: accept on the non-blocking socket.  It returns the queued
\* connection, or fails and the thread goes back to the loop condition: with
\* the connection still queued (EMFILE, ENFILE, ENOMEM, EINTR), or dropped
\* from the queue because the client has gone (ECONNABORTED).
Accept ==
    /\ ipc = "accept"
    /\ pending # NoConn
    /\ \/ /\ conn' = [open |-> TRUE, data |-> pending.data,
                      trace |-> <<"accept">>, peerClosed |-> pending.peerClosed]
          /\ pending' = NoConn
          /\ ipc' = "read"
       \/ /\ conn' = conn
          /\ pending' \in {pending, NoConn}
          /\ ipc' = "loop"
    /\ UNCHANGED <<g_devices, plugin, lastCmd, response, serverFd, sockPath, lock,
                   objs, op>>
    /\ IpcFixed

\* lines 353-355: one read().  It returns the bytes that have arrived (n > 0),
\* or 0 when the client has closed without sending; when nothing has arrived
\* and the client is still there it returns -1 at once on a socket that
\* inherited O_NONBLOCK and waits on one that did not.  The bytes read are
\* taken out of the socket.
Read ==
    /\ ipc = "read"
    /\ conn.data # <<>> \/ conn.peerClosed \/ acceptNonblock
    /\ conn' = [conn EXCEPT !.data = <<>>, !.trace = Append(@, "read")]
    /\ IF conn.data # <<>>
       THEN lastCmd' = conn.data /\ ipc' = "dispatch"
       ELSE lastCmd' = lastCmd /\ ipc' = "close"
    /\ UNCHANGED <<g_devices, plugin, response, serverFd, sockPath, pending, lock,
                   objs, op>>
    /\ IpcFixed

\* lines 357 and 265-304: HandleCommand up to the registry call, or to its
\* return when it calls none; op.before keeps what the registry and the
\* plugin were when HandleCommand was entered
Dispatch ==
    /\ ipc = "dispatch"
    /\ conn' = [conn EXCEPT !.trace = Append(@, "dispatch")]
    /\ \E garbage \in DOMAIN Parsed[lastCmd] :
          LET p == Parsed[lastCmd][garbage] IN
          /\ op' = [kind |-> p.callee,
                    name |-> p.name,
                    channel |-> p.channel,
                    device |-> 0,
                    handler |-> NoHandler,
                    ret |-> FALSE,
                    before |-> Snapshot]
          /\ IF p.callee = "none"
             THEN response' = p.response /\ ipc' = "write"
             ELSE response' = response /\ ipc' = "lock"
    /\ UNCHANGED <<g_devices, plugin, lastCmd, serverFd, sockPath, pending, lock,
                   objs>>
    /\ IpcFixed

\* lines 211, 242, 256: std::lock_guard takes g_devicesMutex; op.before keeps
\* what the registry and the plugin were at that moment
Acquire ==
    /\ ipc = "lock"
    /\ lock = "free"
    /\ lock' = "ipc"
    /\ op' = [op EXCEPT !.before = Snapshot]
    /\ ipc' = op.kind
    /\ UNCHANGED <<g_devices, plugin, lastCmd, response, serverFd, sockPath,
                   pending, conn, objs>>
    /\ IpcFixed

\* AddCheck that finds no name registered
AddCheck_NoDup ==
    /\ ipc = "add"
    /\ ipc' = "add_construct"
    /\ UNCHANGED <<g_devices, plugin, lastCmd, response, serverFd, sockPath,
                   pending, conn, lock, objs, op>>
    /\ IpcFixed

\* lines 214-218: the duplicate check
AddCheck ==
    /\ ipc = "add"
    /\ IF HasName(g_devices, op.name)
       THEN ipc' = "unlock"
       ELSE ipc' = "add_construct"
    /\ UNCHANGED <<g_devices, plugin, lastCmd, response, serverFd, sockPath,
                   pending, conn, lock, objs, op>>
    /\ IpcFixed

\* lines 220-226: the device object
AddConstruct ==
    /\ ipc = "add_construct"
    /\ LET d == FreshDevice IN
       /\ op' = [op EXCEPT !.device = d]
       /\ objs' = WithObject(d, NewObject)
    /\ ipc' = "add_stream"
    /\ UNCHANGED <<g_devices, plugin, lastCmd, response, serverFd, sockPath,
                   pending, conn, lock>>
    /\ IpcFixed

\* line 227: AddStreamWithControlsAsync on a device that is not published
AddStream ==
    /\ ipc = "add_stream"
    /\ objs' = WithObject(op.device, [objs[op.device] EXCEPT !.stream = TRUE])
    /\ ipc' = "add_control"
    /\ UNCHANGED <<g_devices, plugin, lastCmd, response, serverFd, sockPath,
                   pending, conn, lock, op>>
    /\ IpcFixed

\* lines 229-230: std::make_shared<DuomicIOHandler>(channel), the one handler
\* that the device and the registry entry will share, and SetControlHandler
AddSetControlHandler ==
    /\ ipc = "add_control"
    /\ op' = [op EXCEPT !.handler = NewHandler(op.channel)]
    /\ objs' = WithObject(op.device, [objs[op.device] EXCEPT !.control = TRUE])
    /\ ipc' = "add_io"
    /\ UNCHANGED <<g_devices, plugin, lastCmd, response, serverFd, sockPath,
                   pending, conn, lock>>
    /\ IpcFixed

\* AddSetIOHandler that leaves the device without an IO handler
AddSetIOHandler_Skip ==
    /\ ipc = "add_io"
    /\ ipc' = "add_publish"
    /\ UNCHANGED <<g_devices, plugin, lastCmd, response, serverFd, sockPath,
                   pending, conn, lock, objs, op>>
    /\ IpcFixed

\* line 231: SetIOHandler
AddSetIOHandler ==
    /\ ipc = "add_io"
    /\ objs' = WithObject(op.device, [objs[op.device] EXCEPT !.io = TRUE])
    /\ ipc' = "add_publish"
    /\ UNCHANGED <<g_devices, plugin, lastCmd, response, serverFd, sockPath,
                   pending, conn, lock, op>>
    /\ IpcFixed

\* line 233: g_plugin->AddDevice
AddPublish ==
    /\ ipc = "add_publish"
    /\ plugin' = plugin \cup {op.device}
    /\ ipc' = "add_push"
    /\ UNCHANGED <<g_devices, lastCmd, response, serverFd, sockPath, pending,
                   conn, lock, objs, op>>
    /\ IpcFixed

\* AddPushBack that inserts the new entry at the front
AddPushBack_Front ==
    /\ ipc = "add_push"
    /\ g_devices' = <<[name |-> op.name, channel |-> op.channel,
                       device |-> op.device,
                       handler |-> op.handler]>> \o g_devices
    /\ op' = [op EXCEPT !.ret = TRUE]
    /\ ipc' = "unlock"
    /\ UNCHANGED <<plugin, lastCmd, response, serverFd, sockPath, pending, conn,
                   lock, objs>>
    /\ IpcFixed

\* lines 235-237: push_back of {name, channel, device, handler}, the handler
\* being the one made at line 229 as the IO threads have left it, and
\* return true
AddPushBack ==
    /\ ipc = "add_push"
    /\ g_devices' = Append(g_devices,
                           [name |-> op.name, channel |-> op.channel,
                            device |-> op.device,
                            handler |-> op.handler])
    /\ op' = [op EXCEPT !.ret = TRUE]
    /\ ipc' = "unlock"
    /\ UNCHANGED <<plugin, lastCmd, response, serverFd, sockPath, pending, conn,
                   lock, objs>>
    /\ IpcFixed

\* lines 244-245 and 251: the search of RemoveVirtualDevice
RemoveFind ==
    /\ ipc = "remove"
    /\ IF HasName(g_devices, op.name)
       THEN /\ op' = [op EXCEPT
                         !.device = g_devices[FirstIndex(g_devices, op.name)].device]
            /\ ipc' = "remove_unpublish"
       ELSE /\ op' = op
            /\ ipc' = "unlock"
    /\ UNCHANGED <<g_devices, plugin, lastCmd, response, serverFd, sockPath,
                   pending, conn, lock, objs>>
    /\ IpcFixed

\* RemoveUnpublish that leaves the device published
RemoveUnpublish_Skip ==
    /\ ipc = "remove_unpublish"
    /\ ipc' = "remove_erase"
    /\ UNCHANGED <<g_devices, plugin, lastCmd, response, serverFd, sockPath,
                   pending, conn, lock, objs, op>>
    /\ IpcFixed

\* line 246: g_plugin->RemoveDevice
RemoveUnpublish ==
    /\ ipc = "remove_unpublish"
    /\ plugin' = plugin \ {op.device}
    /\ ipc' = "remove_erase"
    /\ UNCHANGED <<g_devices, lastCmd, response, serverFd, sockPath, pending,
                   conn, lock, objs, op>>
    /\ IpcFixed

\* RemoveErase that moves the last entry into the place of the one found
\* and drops the last
RemoveErase_SwapPop ==
    /\ ipc = "remove_erase"
    /\ LET i == FirstIndex(g_devices, op.name)
           n == Len(g_devices)
       IN g_devices' = SubSeq([g_devices EXCEPT ![i] = g_devices[n]], 1, n - 1)
    /\ objs' = WithoutObject(op.device)
    /\ op' = [op EXCEPT !.ret = TRUE]
    /\ ipc' = "unlock"
    /\ UNCHANGED <<plugin, lastCmd, response, serverFd, sockPath, pending, conn,
                   lock>>
    /\ IpcFixed

\* lines 247-248: erase, which drops the registry's references to the device
\* and its handler, and return true
RemoveErase ==
    /\ ipc = "remove_erase"
    /\ g_devices' = RemoveAt(g_devices, FirstIndex(g_devices, op.name))
    /\ objs' = WithoutObject(op.device)
    /\ op' = [op EXCEPT !.ret = TRUE]
    /\ ipc' = "unlock"
    /\ UNCHANGED <<plugin, lastCmd, response, serverFd, sockPath, pending, conn,
                   lock>>
    /\ IpcFixed

\* lines 257-261: the lines of ListDevices
ListBuild ==
    /\ ipc = "list"
    /\ response' = <<"OK\n">> \o ListDevices(g_devices)
    /\ ipc' = "unlock"
    /\ UNCHANGED <<g_devices, plugin, lastCmd, serverFd, sockPath, pending, conn,
                   lock, objs, op>>
    /\ IpcFixed

\* the registry call returns, its lock_guard releases g_devicesMutex, and
\* HandleCommand returns the response (lines 281-285, 293-297, 300)
Release ==
    /\ ipc = "unlock"
    /\ lock' = "free"
    /\ response' =
          IF op.kind = "add" THEN (IF op.ret THEN RespAdded ELSE RespExists)
          ELSE IF op.kind = "remove"
          THEN (IF op.ret THEN RespRemoved ELSE RespNotFound)
          ELSE response
    /\ ipc' = "write"
    /\ UNCHANGED <<g_devices, plugin, lastCmd, serverFd, sockPath, pending, conn,
                   objs, op>>
    /\ IpcFixed

\* line 358: write(), whose result is not looked at.  On a connection whose
\* client has closed its end, write() raises SIGPIPE; the driver neither
\* ignores the signal nor sets SO_NOSIGPIPE or MSG_NOSIGNAL, so the default
\* action ends the process there: its descriptors are closed, the file at
\* SOCKET_PATH stays.
Write ==
    /\ ipc = "write"
    /\ IF conn.peerClosed
       THEN /\ conn' = [conn EXCEPT !.open = FALSE]
            /\ serverFd' = "closed"
            /\ ipc' = "killed"
            /\ pc' = "terminated"
       ELSE /\ conn' = [conn EXCEPT !.trace = Append(@, "write")]
            /\ serverFd' = serverFd
            /\ ipc' = "close"
            /\ pc' = pc
    /\ UNCHANGED <<g_devices, plugin, lastCmd, response, sockPath, pending, lock,
                   objs, op>>
    /\ IpcUntouched

\* lines 360-362: close(clientFd); buffer and response, locals of the loop
\* body, end with the iteration
Close ==
    /\ ipc = "close"
    /\ conn' = [conn EXCEPT !.open = FALSE, !.trace = Append(@, "close")]
    /\ op' = NoOp
    /\ lastCmd' = <<>>
    /\ response' = <<>>
    /\ ipc' = "loop"
    /\ UNCHANGED <<g_devices, plugin, serverFd, sockPath, pending, lock, objs>>
    /\ IpcFixed

\* lines 364-365: close(serverFd) and unlink(SOCKET_PATH)
Cleanup ==
    /\ ipc = "cleanup"
    /\ serverFd' = "closed"
    /\ sockPath' = FALSE
    /\ ipc' = "return_end"
    /\ UNCHANGED <<g_devices, plugin, lastCmd, response, pending, conn, lock,
                   objs, op>>
    /\ IpcFixed

\* the statements of AddVirtualDevice, RemoveVirtualDevice and ListDevices
RegistryCall ==
    \/ Acquire \/ AddCheck \/ AddConstruct \/ AddStream
    \/ AddSetControlHandler \/ AddSetIOHandler \/ AddPublish \/ AddPushBack
    \/ RemoveFind \/ RemoveUnpublish \/ RemoveErase \/ ListBuild
    \/ Release

\* the statements of the control thread up to the end of its loop
IpcServe ==
    \/ Unlink \/ CreateSocket \/ Bind \/ Listen
    \/ LoopCheck \/ Select \/ Accept \/ Read \/ Dispatch
    \/ RegistryCall
    \/ Write \/ Close

\* the statements of the control thread
IpcThread == IpcServe \/ Cleanup

\* a client has connected to the listening socket and its connection waits
\* in the listen queue.  Only select() and accept() look at the queue, so a
\* connection made while the thread was elsewhere is taken as made when the
\* thread is at select().  max bounds the connections made.
Connect(max) ==
    /\ serverFd = "listening"
    /\ ipc = "select"
    /\ ncmds < max
    /\ pending = NoConn
    /\ pending' = [open |-> TRUE, data |-> <<>>, trace |-> <<>>,
                   peerClosed |-> FALSE]
    /\ ncmds' = ncmds + 1
    /\ UNCHANGED <<pc, cfgFile, config, seedPos, g_devices, plugin, lastCmd,
                   response, shm, lastPull, nwrites, npulls, ipc, serverFd,
                   sockPath, g_running, diag, conn, lock, objs, op, pulling,
                   acceptNonblock>>

\* the bytes one of the commands msgs, sent by the client of the accepted
\* connection, are there for read(): sent before the thread got to line 354,
\* or while it waits there
ClientSend(msgs) ==
    /\ ipc = "read"
    /\ conn.open /\ ~conn.peerClosed
    /\ conn.data = <<>>
    /\ \E data \in msgs : conn' = [conn EXCEPT !.data = data]
    /\ UNCHANGED <<pc, cfgFile, config, seedPos, g_devices, plugin, lastCmd,
                   response, ncmds, shm, lastPull, nwrites, npulls, ipc, serverFd,
                   sockPath, g_running, diag, pending, lock, objs, op, pulling,
                   acceptNonblock>>

\* the client of the accepted connection has closed its end.  Only read()
\* and write() look at that, so a close made while the thread was elsewhere
\* is taken as made when the thread is at the next of the two.
ClientClose ==
    /\ ipc \in {"read", "write"}
    /\ conn.open /\ ~conn.peerClosed
    /\ conn' = [conn EXCEPT !.peerClosed = TRUE]
    /\ UNCHANGED <<pc, cfgFile, config, seedPos, g_devices, plugin, lastCmd,
                   response, ncmds, shm, lastPull, nwrites, npulls, ipc, serverFd,
                   sockPath, g_running, diag, pending, lock, objs, op, pulling,
                   acceptNonblock>>

\* the shutdown flag is cleared
Shutdown ==
    /\ pc = "running"
    /\ g_running
    /\ g_running' = FALSE
    /\ UNCHANGED <<pc, cfgFile, config, seedPos, g_devices, plugin, lastCmd,
                   response, ncmds, shm, lastPull, nwrites, npulls, ipc, serverFd,
                   sockPath, diag, pending, conn, lock, objs, op, pulling,
                   acceptNonblock>>

\* PullBegin that waits for g_devicesMutex
PullBegin_TakesLock(max) ==
    /\ pc = "running"
    /\ npulls < max
    /\ lock = "free"
    /\ \E d \in plugin \ pulling : pulling' = pulling \cup {d}
    /\ npulls' = npulls + 1
    /\ UNCHANGED <<pc, cfgFile, config, seedPos, g_devices, plugin, lastCmd,
                   response, ncmds, shm, lastPull, nwrites, ipc, serverFd,
                   sockPath, g_running, diag, pending, conn, lock, objs, op,
                   acceptNonblock>>

\* the host enters OnReadClientInput of a published device on an IO thread;
\* it runs one pull per device at a time; max bounds the pulls made
PullBegin(max) ==
    /\ pc = "running"
    /\ npulls < max
    /\ \E d \in plugin \ pulling : pulling' = pulling \cup {d}
    /\ npulls' = npulls + 1
    /\ UNCHANGED <<pc, cfgFile, config, seedPos, g_devices, plugin, lastCmd,
                   response, ncmds, shm, lastPull, nwrites, ipc, serverFd,
                   sockPath, g_running, diag, pending, conn, lock, objs, op,
                   acceptNonblock>>

\* OnReadClientInput runs to its return (lines 142-202) and moves the cursor
\* of the device's handler.  The handler is the one the registry entry holds;
\* for a device that AddVirtualDevice has published and not yet pushed it is
\* the local of that call; for a device whose entry has been erased it lives
\* as long as the pull and nothing else holds it.
PullEnd ==
    /\ pc = "running"
    /\ \E d \in pulling :
          /\ pulling' = pulling \ {d}
          /\ IF d \in RegistryDevices(g_devices)
             THEN LET i == CHOOSE k \in 1..Len(g_devices) : g_devices[k].device = d
                      r == OnReadClientInput(g_devices[i].handler, IoRequest, shm)
                  IN /\ g_devices' =
                           [g_devices EXCEPT ![i].handler.readPos = r.readPos]
                     /\ op' = op
             ELSE IF op.kind = "add" /\ op.device = d
             THEN LET r == OnReadClientInput(op.handler, IoRequest, shm)
                  IN /\ op' = [op EXCEPT !.handler.readPos = r.readPos]
                     /\ g_devices' = g_devices
             ELSE /\ g_devices' = g_devices
                  /\ op' = op
    /\ UNCHANGED <<pc, cfgFile, config, seedPos, plugin, lastCmd, response, ncmds,
                   shm, lastPull, nwrites, npulls, ipc, serverFd, sockPath,
                   g_running, diag, pending, conn, lock, objs,
                   acceptNonblock>>

\* the process from its start: CreateDuomicDriver, then the control thread,
\* its clients and the host's IO threads.  Nothing in the driver clears
\* g_running, so the loop of the thread does not end.
Next ==
    \/ LoadConfig \/ SeedDevice \/ StartIPCThread
    \/ IpcServe \/ Connect(MaxCmds) \/ ClientSend(Commands) \/ ClientClose
    \/ PullBegin(MaxHostPulls) \/ PullEnd

Spec == Init /\ [][Next]_vars

\* the process from the return of CreateDuomicDriver, which found
\* PullConfigFile and no segment to map, with the shutdown that clears
\* g_running
IpcNext ==
    \/ IpcThread \/ Connect(MaxConns) \/ ClientSend(ClientData) \/ ClientClose
    \/ Shutdown \/ PullBegin(MaxIoPulls) \/ PullEnd

IpcSpec == IpcInit /\ [][IpcNext]_vars

\* the control thread and the IO threads are scheduled: a statement that can
\* run does run
IpcLiveSpec == IpcSpec /\ WF_vars(IpcThread) /\ WF_vars(PullEnd)

-----------------------------------------------------------------------------
(* Claims about the registry and the control protocol, checked under Spec *)

\* the step is the return of HandleCommand: its response is what write() is
\* given, and op.before is what the call found
Returns == ipc # "write" /\ ipc' = "write"

\* the step is the loop of CreateDuomicDriver adding one configured entry
IsSeedStep == seedPos' = seedPos + 1

\* cmd is ADD with a non-empty name and a channel text that operator>> turns
\* into an int in [0, MAX_CHANNELS)
IsValidAdd(cmd) ==
    /\ CommandWord(cmd).str = KwADD
    /\ AddName(cmd).str # <<>>
    /\ AddChannel(cmd).assigned
    /\ AddChannel(cmd).val \in 0..(MAX_CHANNELS - 1)

\* cmd is REMOVE of the non-empty name
IsRemoveOf(cmd, name) ==
    /\ CommandWord(cmd).str = KwREMOVE
    /\ name # <<>>
    /\ RemoveName(cmd).str = name

\* the step is the erase of RemoveVirtualDevice(name) called for a REMOVE
ErasesFor(name) ==
    /\ ipc = "remove_erase"
    /\ ipc' = "unlock"
    /\ op.name = name
    /\ IsRemoveOf(lastCmd, name)

NamesUnique(devs) ==
    \A i, j \in 1..Len(devs) : devs[i].name = devs[j].name => i = j

\* (name, channel) of every entry, in order
Entries(devs) == [i \in 1..Len(devs) |-> <<devs[i].name, devs[i].channel>>]

\* the lines of text, each up to its newline; what follows the last newline
\* is a line if it is not empty
RECURSIVE LinesOf(_)
LinesOf(text) ==
    IF text = <<>> THEN <<>>
    ELSE LET e == FindChar(text, 1, "\n") IN
         <<SubSeq(text, 1, e - 1)>> \o LinesOf(SubSeq(text, e + 1, Len(text)))

\* the number a string of decimal digits writes
RECURSIVE DecimalValue(_)
DecimalValue(digits) ==
    IF digits = <<>> THEN 0
    ELSE DecimalValue(SubSeq(digits, 1, Len(digits) - 1)) * 10
            + DigitVal(digits[Len(digits)])

\* the (name, channel) that a client reads from one line of a LIST reply:
\* the name up to the last colon, the channel in decimal after it
ListedEntry(line) ==
    LET c == CHOOSE k \in 0..Len(line) :
                /\ k > 0 => line[k] = ":"
                /\ \A j \in (k + 1)..Len(line) : line[j] # ":"
    IN <<SubSeq(line, 1, c - 1), DecimalValue(SubSeq(line, c + 1, Len(line)))>>

\* the entries a client reads from a LIST reply, in the order of its lines
Listed(resp) ==
    LET lines == LinesOf(Tail(resp)) IN
    [i \in 1..Len(lines) |-> ListedEntry(lines[i])]

\* the step of C1: HandleCommand returns from a valid ADD of a name that was
\* not registered with OK:Device added and with (name, channel) appended
\* after all entries that were present; seeding a new name appends likewise;
\* every entry stays, in the same order relative to the other entries, in
\* every step but the erase of a REMOVE of its name; and HandleCommand
\* returns from LIST with the registry as it found it and with OK followed
\* by lines from which a client reads the entries' (name, channel) in the
\* order of the registry.
C1_Step ==
    /\ (/\ Returns
        /\ IsValidAdd(lastCmd)
        /\ ~HasName(op'.before.devices, AddName(lastCmd).str)) =>
          LET b == op'.before.devices IN
          /\ response' = RespAdded
          /\ Len(g_devices') = Len(b) + 1
          /\ Rows(SubSeq(g_devices', 1, Len(b))) = Rows(b)
          /\ g_devices'[Len(g_devices')].name = AddName(lastCmd).str
          /\ g_devices'[Len(g_devices')].channel = AddChannel(lastCmd).val
    /\ (IsSeedStep /\ ~HasName(g_devices, config[seedPos + 1][1])) =>
          /\ Len(g_devices') = Len(g_devices) + 1
          /\ SubSeq(g_devices', 1, Len(g_devices)) = g_devices
          /\ g_devices'[Len(g_devices')].name = config[seedPos + 1][1]
          /\ g_devices'[Len(g_devices')].channel = config[seedPos + 1][2]
    /\ \A i \in 1..Len(g_devices) :
          ~ErasesFor(g_devices[i].name) =>
             \E j \in 1..Len(g_devices') :
                /\ g_devices'[j].name = g_devices[i].name
                /\ g_devices'[j].channel = g_devices[i].channel
                /\ \A k \in 1..(i - 1) :
                      ~ErasesFor(g_devices[k].name) =>
                         \E l \in 1..(j - 1) :
                            g_devices'[l].name = g_devices[k].name
    /\ (Returns /\ CommandWord(lastCmd).str = KwLIST) =>
          /\ Rows(g_devices') = op'.before.devices
          /\ Head(response') = "OK\n"
          /\ Listed(response') = Entries(g_devices')

\* C1: a valid ADD of a new name answers OK:Device added and appends the
\* entry after the entries present, every entry that is not removed keeps
\* its place in the order, and LIST lists the entries in that order: every
\* later LIST, until the name is removed, has the entry after all entries
\* that were added earlier and are still present.
C1_AddThenListed == [][C1_Step]_vars

\* an ADD of an earlier connection appended a:0 to the two defaults, and
\* HandleCommand has returned from the LIST of a later connection with the
\* line of a:0 after the lines of the defaults
C1_Witness ==
    /\ ipc = "write"
    /\ CommandWord(lastCmd).str = KwLIST
    /\ Listed(response) = <<DefaultDevices[1], DefaultDevices[2], <<NameA, 0>> >>

\* the step of C2: HandleCommand returns from a valid ADD of a name that was
\* registered with the registry and the published devices as it found them
\* and with exactly ERROR:Device already exists; seeding a registered name
\* leaves both as they were.
C2_Step ==
    /\ (/\ Returns
        /\ IsValidAdd(lastCmd)
        /\ HasName(op'.before.devices, AddName(lastCmd).str)) =>
          /\ Rows(g_devices') = op'.before.devices
          /\ plugin' = op'.before.plugin
          /\ response' = RespExists
    /\ (IsSeedStep /\ HasName(g_devices, config[seedPos + 1][1])) =>
          /\ g_devices' = g_devices
          /\ plugin' = plugin

\* C2: an ADD (or a configured entry) whose name is registered leaves the
\* registry and the published devices unchanged, and the ADD is answered
\* ERROR:Device already exists.
C2_DuplicateAddUnchanged == [][C2_Step]_vars

\* HandleCommand has returned from an ADD of a registered name with another
\* channel
C2_Witness ==
    /\ ipc = "write"
    /\ response = RespExists
    /\ \E i \in 1..Len(g_devices) :
          /\ g_devices[i].name = AddName(lastCmd).str
          /\ g_devices[i].channel # AddChannel(lastCmd).val

\* the step of C3: HandleCommand returns from REMOVE of a name that was not
\* registered with the registry and the published devices as it found them
\* and with ERROR:Device not found; from REMOVE of a registered name with
\* OK:Device removed, that entry erased, its device retracted, and every
\* other entry in place in the same order.
C3_Step ==
    \A name \in CmdNames \cup {NameBad, NameLeft} :
       (Returns /\ IsRemoveOf(lastCmd, name)) =>
          LET b == op'.before IN
          IF ~HasName(b.devices, name)
          THEN /\ Rows(g_devices') = b.devices
               /\ plugin' = b.plugin
               /\ response' = RespNotFound
          ELSE LET i == FirstIndex(b.devices, name) IN
               /\ response' = RespRemoved
               /\ ~HasName(g_devices', name)
               /\ Rows(g_devices') = RemoveAt(b.devices, i)
               /\ plugin' = b.plugin \ {b.devices[i].device}
               /\ b.devices[i].device \in b.plugin

\* C3: REMOVE of an absent name changes nothing and answers ERROR:Device not
\* found; REMOVE of a present name erases exactly that entry, and the other
\* entries stay in their order.
C3_Remove == [][C3_Step]_vars

\* HandleCommand has returned from a REMOVE that erased the first of three
\* entries, and the two behind it are there in their order
C3_Witness ==
    /\ ipc = "write"
    /\ response = RespRemoved
    /\ Len(op.before.devices) = 3
    /\ op.before.devices[1].name = RemoveName(lastCmd).str
    /\ Rows(g_devices) = SubSeq(op.before.devices, 2, 3)

\* C4: no two registry entries have the same name.
C4_NamesUnique == NamesUnique(g_devices)

\* a configuration that repeats a name has been seeded whole
C4_Witness ==
    /\ pc = "seeding"
    /\ seedPos = Len(config)
    /\ \E i, j \in 1..Len(config) : i # j /\ config[i][1] = config[j][1]
    /\ Len(g_devices) >= 1

\* the step of C10: HandleCommand returns with an ERROR: response and with
\* the registry and the published devices as it found them, and from
\* ADD bad:99 with exactly ERROR:Invalid channel.
C10_Step ==
    Returns =>
       LET same == /\ Rows(g_devices') = op'.before.devices
                   /\ plugin' = op'.before.plugin
       IN /\ response' \in ErrorResponses => same
          /\ lastCmd = KwADD \o <<" ">> \o NameBad \o <<":", "9", "9">> =>
                (response' = RespInvalidChannel /\ same)

\* C10: every command answered with an ERROR: response leaves the registry
\* and the published devices unchanged.
C10_ErrorsLeaveRegistry == [][C10_Step]_vars

\* HandleCommand has returned from ADD bad:99
C10_Witness ==
    /\ ipc = "write"
    /\ lastCmd = KwADD \o <<" ">> \o NameBad \o <<":", "9", "9">>
    /\ response = RespInvalidChannel
    /\ Len(g_devices) >= 2

-----------------------------------------------------------------------------
(* Claims about OnReadClientInput, checked under PullSpec *)

Pulled == lastPull.dev # 0

\* the last pull got past the active and channel checks
PulledCursor == Pulled /\ lastPull.r.stage = "cursor"

PullChannel == g_devices[lastPull.dev].handler.channelIndex

LatencyPos(writePos) == Sub32(writePos, U32(TARGET_LATENCY))

OverrunLimit == U32(RING_BUFFER_FRAMES - OVERRUN_MARGIN)

\* C5: a pull while the segment is not mapped, or its active flag is not 1,
\* or the channel index is not below its channel count, writes numSamples
\* zeros and leaves readPos_ as it was.
C5_InactiveSilent ==
    (/\ Pulled
     /\ \/ ~lastPull.seg.connected
        \/ lastPull.seg.activeFlag # 1
        \/ PullChannel >= lastPull.seg.channelCount)
    => /\ lastPull.r.out = Silence(lastPull.numSamples)
       /\ lastPull.r.readPos = lastPull.before
       /\ g_devices[lastPull.dev].handler.readPos = lastPull.before

C5_Witness ==
    /\ Pulled
    /\ lastPull.seg.connected
    /\ lastPull.seg.activeFlag = 0
    /\ lastPull.numSamples = 256
    /\ lastPull.before # <<0, 0>>
    /\ Lt32(U32(256), Sub32(lastPull.seg.writePos, lastPull.before))
    /\ PullChannel < lastPull.seg.channelCount

\* C6 as claimed: a pull with writePos - readPos_ below the request writes
\* zeros and returns with readPos_ at the value it had before the call.
C6_AsClaimed ==
    (/\ PulledCursor
     /\ Lt32(Sub32(lastPull.r.writePos, lastPull.before),
             U32(lastPull.numSamples)))
    => /\ lastPull.r.out = Silence(lastPull.numSamples)
       /\ lastPull.r.readPos = lastPull.before

\* C6 amended: a pull whose available count, computed after the seeding and
\* overrun steps, is below the request writes zeros and consumes nothing:
\* readPos_ is left where those steps put it, which is writePos - 1024 when
\* the cursor was 0 with writePos > 1024 or the overrun branch was taken, and
\* the value before the call otherwise.
C6_UnderrunNoAdvance ==
    (/\ PulledCursor
     /\ Lt32(lastPull.r.available, U32(lastPull.numSamples)))
    => LET w == lastPull.r.writePos
           seedFired == lastPull.before = <<0, 0>> /\ Lt32(U32(TARGET_LATENCY), w)
           overFired == ~seedFired /\ Lt32(OverrunLimit, Sub32(w, lastPull.before))
       IN /\ lastPull.r.out = Silence(lastPull.numSamples)
          /\ lastPull.r.copied = 0
          /\ lastPull.r.readPos =
                IF seedFired \/ overFired THEN LatencyPos(w) ELSE lastPull.before

\* an underrun in the call that seeded the cursor
C6_Witness ==
    /\ PulledCursor
    /\ lastPull.before = <<0, 0>>
    /\ lastPull.r.writePos = U32(1090)
    /\ lastPull.numSamples = 1100
    /\ lastPull.r.readPos = U32(66)
    /\ lastPull.r.silent

\* C7 as claimed: writePos - readPos_ >= 8192 - 512 resets the cursor.
C7_AsClaimed ==
    (/\ PulledCursor
     /\ Le32(OverrunLimit, Sub32(lastPull.r.writePos, lastPull.before)))
    => /\ lastPull.r.snapped = LatencyPos(lastPull.r.writePos)
       /\ lastPull.r.available = U32(TARGET_LATENCY)

\* C7 amended: writePos - readPos_ > 8192 - 512 makes the call continue with
\* readPos_ = writePos - 1024 and available = 1024; at exactly 8192 - 512,
\* with a cursor that is not 0, the cursor is not reset and available is
\* 8192 - 512.
C7_OverrunReset ==
    PulledCursor =>
       LET w == lastPull.r.writePos
           avail == Sub32(w, lastPull.before)
       IN /\ Lt32(OverrunLimit, avail) =>
                /\ lastPull.r.snapped = LatencyPos(w)
                /\ lastPull.r.from = LatencyPos(w)
                /\ lastPull.r.available = U32(TARGET_LATENCY)
                /\ lastPull.r.readPos = Add32(LatencyPos(w), U32(lastPull.r.copied))
                /\ lastPull.r.copied \in {0, lastPull.numSamples}
                /\ lastPull.numSamples > TARGET_LATENCY => lastPull.r.silent
          /\ (avail = OverrunLimit /\ lastPull.before # <<0, 0>>) =>
                /\ lastPull.r.snapped = lastPull.before
                /\ lastPull.r.available = OverrunLimit

\* the overrun branch taken with a cursor that is not 0
C7_Witness ==
    /\ PulledCursor
    /\ lastPull.before # <<0, 0>>
    /\ Lt32(OverrunLimit, Sub32(lastPull.r.writePos, lastPull.before))
    /\ Lt32(lastPull.before, lastPull.r.writePos)
    /\ lastPull.r.overrun
    /\ ~lastPull.r.silent

\* C8 as claimed: the cursor never decreases and is never above the write
\* cursor the pull observed.
C8_AsClaimed ==
    PulledCursor =>
       /\ Le32(lastPull.before, lastPull.r.readPos)
       /\ Le32(lastPull.r.readPos, lastPull.r.writePos)

\* C8 amended: modulo 2^32 the cursor only moves forward and never passes
\* the write cursor the pull observed: (readPos' - readPos) mod 2^32 <=
\* (writePos - readPos) mod 2^32; when the write cursor observed is not
\* below the stored cursor this is readPos <= readPos' <= writePos.
C8_CursorBehindWriter ==
    PulledCursor =>
       LET w == lastPull.r.writePos IN
       /\ Le32(Sub32(lastPull.r.readPos, lastPull.before),
               Sub32(w, lastPull.before))
       /\ Le32(lastPull.before, w) =>
             /\ Le32(lastPull.before, lastPull.r.readPos)
             /\ Le32(lastPull.r.readPos, w)

\* a pull that observes a write cursor that wrapped below the stored cursor
C8_Witness ==
    /\ PulledCursor
    /\ Lt32(lastPull.r.writePos, lastPull.before)
    /\ Lt32(lastPull.r.writePos, U32(TARGET_LATENCY))

\* C9: the first pull, with readPos_ = 0, an active segment, channel c below
\* the channel count, writePos W > 1024 and numSamples n <= 1024, starts at
\* W - 1024, writes the n converted samples of channel c of the frames
\* W - 1024 .. W - 1024 + n - 1, each from slot (frame mod 8192) * channelCount
\* + c, and leaves readPos_ = W - 1024 + n; with W = 2000, n = 256, c = 3 and
\* 4 channels these are the frames 976..1231 and the cursor is 1232.
C9_FirstPullSeeds ==
    (/\ Pulled
     /\ lastPull.before = <<0, 0>>
     /\ lastPull.seg.connected
     /\ lastPull.seg.activeFlag = 1
     /\ PullChannel \in 0..(lastPull.seg.channelCount - 1)
     /\ Lt32(U32(TARGET_LATENCY), lastPull.seg.writePos)
     /\ lastPull.numSamples <= TARGET_LATENCY)
    => LET w == lastPull.seg.writePos
           n == lastPull.numSamples
           cc == lastPull.seg.channelCount
           frame(i) == Add32(LatencyPos(w), U32(i - 1))
       IN /\ lastPull.r.from = LatencyPos(w)
          /\ lastPull.r.copied = n
          /\ Len(lastPull.r.out) = n
          /\ \A i \in 1..n :
                lastPull.r.out[i] =
                   ConvertToSInt16(ShmSample(lastPull.seg,
                      (frame(i)[2] % RING_BUFFER_FRAMES) * cc + PullChannel))
          /\ lastPull.r.readPos = Add32(LatencyPos(w), U32(n))
          /\ (w = U32(2000) /\ n = 256 /\ PullChannel = 3 /\ cc = 4) =>
                /\ lastPull.r.from = U32(976)
                /\ lastPull.r.readPos = U32(1232)
                /\ lastPull.r.out[1] =
                      ConvertToSInt16(ShmSample(lastPull.seg, 976 * 4 + 3))
                /\ lastPull.r.out[256] =
                      ConvertToSInt16(ShmSample(lastPull.seg, 1231 * 4 + 3))

C9_Witness ==
    /\ Pulled
    /\ lastPull.before = <<0, 0>>
    /\ lastPull.seg.writePos = U32(2000)
    /\ lastPull.seg.channelCount = 4
    /\ lastPull.seg.activeFlag = 1
    /\ PullChannel = 3
    /\ lastPull.numSamples = 256
    /\ g_devices[lastPull.dev].name = NameStudio
    /\ g_devices[lastPull.dev].handler.readPos = U32(1232)

\* the frames the last pull read: from, from + 1, ..., modulo 2^32
FramesRead == {Add32(lastPull.r.from, U32(i)) : i \in 0..(lastPull.r.copied - 1)}

\* C17: every frame f a pull reads satisfies W - (8192 - 512) <= f < W for the
\* write cursor W the pull observed: f is numerically below W and at most
\* 7680 frames, hence less than the capacity, behind it.
C17_FramesInWindow ==
    (PulledCursor /\ ~lastPull.r.silent) =>
       \A f \in FramesRead :
          /\ Lt32(f, lastPull.r.writePos)
          /\ Le32(Sub32(lastPull.r.writePos, f), OverrunLimit)
          /\ Lt32(Sub32(lastPull.r.writePos, f), U32(RING_BUFFER_FRAMES))

\* a pull that reads frames starting exactly 7680 frames behind the write
\* cursor, the oldest frame the overrun test lets through
C17_Witness ==
    /\ PulledCursor
    /\ ~lastPull.r.silent
    /\ lastPull.r.copied > 0
    /\ Sub32(lastPull.r.writePos, lastPull.r.from) = OverrunLimit

\* C18: when the write cursor W a pull observes has wrapped past 2^32 and is
\* numerically below the read cursor, and (W - readCursor) mod 2^32 is at
\* least the requested count n and at most 8192 - 512, the pull returns the n
\* frames that start at the read cursor and advances the cursor by n modulo
\* 2^32, as it does without wraparound.
C18_AsClaimed ==
    (/\ PulledCursor
     /\ lastPull.numSamples > 0
     /\ Lt32(lastPull.r.writePos, lastPull.before)
     /\ Le32(U32(lastPull.numSamples), Sub32(lastPull.r.writePos, lastPull.before))
     /\ Le32(Sub32(lastPull.r.writePos, lastPull.before), OverrunLimit)) =>
       /\ ~lastPull.r.silent
       /\ lastPull.r.copied = lastPull.numSamples
       /\ lastPull.r.from = lastPull.before
       /\ lastPull.r.readPos = Add32(lastPull.before, U32(lastPull.numSamples))

-----------------------------------------------------------------------------
(* Claims about startup, checked under Spec *)

\* the line has the form name:channelIndex with a decimal channel index in
\* [0, MAX_CHANNELS)
IsEntryLine(line) ==
    /\ line # <<>>
    /\ line[1] # "#"
    /\ LET colonPos == FindChar(line, 1, ":")
           text == SubSeq(line, colonPos + 1, Len(line))
           from == SkipWs(text, 1)
           to == DigitsEnd(text, from)
       IN /\ colonPos <= Len(line)
          /\ to > from
          /\ SkipWs(text, to) > Len(text)
          /\ DigitsValue(text, from, to, 0) < MAX_CHANNELS

\* the file is absent or none of its lines is an entry
YieldsNoEntries(file) ==
    ~file.open \/ \A k \in 1..Len(file.lines) : ~IsEntryLine(file.lines[k])

\* the registry holds the two built-in defaults and nothing else
IsDefaultRegistry(devs) ==
    /\ Len(devs) = Len(DefaultDevices)
    /\ \A k \in 1..Len(devs) :
          /\ devs[k].name = DefaultDevices[k][1]
          /\ devs[k].channel = DefaultDevices[k][2]

\* C16: when the configuration file is absent or yields no entries (blank
\* lines, comments, lines with no colon, a channel part that is not a number
\* or is out of range), startup does not terminate and, when it completes,
\* the registry holds exactly the two defaults on channels 0 and 1.
C16_AsClaimed ==
    [][(pc # "running" /\ YieldsNoEntries(cfgFile)) =>
          /\ pc' # "terminated"
          /\ pc' = "running" => IsDefaultRegistry(g_devices')]_vars

\* C20: every registry entry has a channel index in [0, MAX_CHANNELS),
\* whatever the configuration file seeded and whatever ADD commands were
\* handled, including those whose channel field is missing, not a number or
\* negative.
C20_ChannelInRange ==
    \A i \in 1..Len(g_devices) :
       g_devices[i].channel \in 0..(MAX_CHANNELS - 1)

\* an ADD whose channel field is missing was handled and, the int that was
\* never assigned holding a value in range, inserted an endpoint
C20_Witness ==
    /\ CommandWord(lastCmd).str = KwADD
    /\ ~AddChannel(lastCmd).assigned
    /\ response = RespAdded
    /\ HasName(g_devices, AddName(lastCmd).str)

-----------------------------------------------------------------------------
(* Claims about the control thread, checked under IpcSpec and IpcLiveSpec *)

\* what is done with a connection, in order
FullTrace == <<"accept", "read", "dispatch", "write", "close">>

IsPrefix(t, u) == Len(t) <= Len(u) /\ t = SubSeq(u, 1, Len(t))

\* the positions of IPCThread at which no accepted connection is in hand
BetweenConnections ==
    ipc \in {"loop", "select", "accept", "cleanup", "return_end"}

\* the positions of the control thread inside AddVirtualDevice,
\* RemoveVirtualDevice or ListDevices, past the lock_guard
InsideRegistryCall ==
    ipc \in {"add", "add_construct", "add_stream", "add_control", "add_io",
             "add_publish", "add_push", "remove", "remove_unpublish",
             "remove_erase", "list", "unlock"}

\* IPCThread has returned
Returned ==
    ipc \in {"return_socket", "return_bind", "return_listen", "return_end"}

\* C11: every accepted connection goes through accept, one read, one
\* dispatch, one response write and close, in that order; none is closed
\* without a response having been written, and none is open when the thread
\* is back at the loop to accept the next.
C11_AsClaimed ==
    /\ IsPrefix(conn.trace, FullTrace)
    /\ (conn.trace # <<>> /\ conn.trace[Len(conn.trace)] = "close") =>
          conn.trace = FullTrace
    /\ BetweenConnections => ~conn.open

\* C12: g_devicesMutex is held exactly inside the registry calls, and a
\* pull neither takes it nor waits for it: while the control thread holds
\* it, a pull can start on any published device that has none in flight and
\* every pull in flight can complete; the control thread, whatever pulls are
\* in flight, can take the lock when it calls into the registry and can take
\* each step of the call up to the release of the lock.
C12_LockNeverStalls ==
    /\ lock = "ipc" <=> InsideRegistryCall
    /\ (pc = "running" /\ npulls < MaxIoPulls /\ plugin \ pulling # {}) =>
          ENABLED PullBegin(MaxIoPulls)
    /\ (pc = "running" /\ pulling # {}) => ENABLED PullEnd
    /\ (ipc = "lock" \/ InsideRegistryCall) => ENABLED RegistryCall

\* AddVirtualDevice is at its return and still holds the lock, and the host
\* is pulling from the device the call published: the pull started while the
\* lock was held
C12_Witness ==
    /\ lock = "ipc"
    /\ ipc = "unlock"
    /\ op.kind = "add" /\ op.ret
    /\ op.device \in pulling

\* C13: every device published to the host has its stream and is bound to
\* its handler as control handler and as IO handler, so the device of a pull
\* in flight has its IO handler.
C13_BoundBeforePublished ==
    /\ \A d \in plugin : d \in DOMAIN objs /\ objs[d] = BoundObject
    /\ \A d \in pulling : d \in DOMAIN objs => objs[d].io

\* an ADD has just published its device and has not yet inserted the entry,
\* and the host is already pulling from that device
C13_Witness ==
    /\ ipc = "add_push"
    /\ op.device \in plugin
    /\ op.device \in pulling

\* C14: when bind fails, IPCThread returns only after a diagnostic was
\* written.
C14_AsClaimed == ipc = "return_bind" => diag # <<>>

\* C15: once g_running is false while IPCThread is in its loop, the thread
\* leaves the loop at its next evaluation of the loop condition, and it does
\* reach its return with the listening socket closed and the socket path
\* unlinked.
C15_AsClaimed ==
    /\ [][(~g_running /\ ipc = "loop") => ipc' \in {"loop", "cleanup"}]_vars
    /\ (~g_running /\ ~Returned /\ serverFd = "listening")
          ~> (ipc = "return_end" /\ serverFd = "closed" /\ ~sockPath)

\* C19: whenever g_devicesMutex is free the devices published are exactly
\* the devices of the registry's entries, one entry per device; an add that
\* returned true published one new device and appended one entry for it, a
\* remove that returned true retracted the device of the entry it erased, and
\* a call that returned false left both as they were.
C19_PublishedIsRegistry ==
    /\ lock = "free" =>
          /\ plugin = RegistryDevices(g_devices)
          /\ Cardinality(plugin) = Len(g_devices)
    /\ (ipc = "write" /\ op.kind \in {"add", "remove"}) =>
          LET b == op.before IN
          IF response = RespAdded
          THEN /\ op.device \notin b.plugin
               /\ plugin = b.plugin \cup {op.device}
               /\ Len(g_devices) = Len(b.devices) + 1
               /\ Rows(SubSeq(g_devices, 1, Len(b.devices))) = b.devices
               /\ g_devices[Len(g_devices)].device = op.device
          ELSE IF response = RespRemoved
          THEN LET i == FirstIndex(b.devices, op.name) IN
               /\ b.devices[i].device \in b.plugin
               /\ plugin = b.plugin \ {b.devices[i].device}
               /\ Rows(g_devices) = Rows(RemoveAt(b.devices, i))
          ELSE /\ response \in {RespExists, RespNotFound}
               /\ plugin = b.plugin
               /\ Rows(g_devices) = b.devices

\* a REMOVE has returned true and released the lock, leaving nothing
\* published
C19_Witness ==
    /\ ipc = "write"
    /\ lock = "free"
    /\ response = RespRemoved
    /\ op.before.plugin # {}
    /\ plugin = {}

====
